---- MODULE Spec2Model ----
(***************************************************************************)
(* create_request.py: the request builder.  One run of the script reads    *)
(* test_file.txt, hashes and base64-encodes its bytes, wraps the metadata  *)
(* (JSON-encoded as a string) in a GraphQL request document and writes     *)
(* the document to upload_request.json.                                    *)
(*                                                                         *)
(* Bytes are integers 0..255, text is a sequence of one-character strings. *)
(* The library calls the script makes (hashlib.sha256, base64.b64encode,   *)
(* json.dumps, open/read/write) are modelled by what they compute.         *)
(***************************************************************************)
EXTENDS Integers, Sequences, FiniteSets, TLC

VARIABLES
  input_file,        \* test_file.txt: [exists, readable, data (bytes)]
  output_file,       \* upload_request.json: [exists, data (characters)]
  output_writable,   \* whether open('upload_request.json', 'w') is permitted
  other_files,       \* every other file of the file system (a version stamp)
  pc,                \* the statement the process is at; "idle": no process
  f_in,              \* the input file handle is open
  f_out,             \* the output file handle is open
  out_buffer,        \* text written to the output handle, not yet flushed
  content,           \* line 7
  file_hash,         \* line 10
  file_size,         \* line 11
  file_content_b64,  \* line 12
  data,              \* line 15
  request,           \* line 24
  stdout,            \* lines printed by the process
  exc,               \* the unhandled exception that ended the process
  at_start,          \* history: the file system when the process started
  last_ok,           \* history: input and output of the last successful run
  quiet              \* history: nothing happened since that successful run

vars == <<input_file, output_file, output_writable, other_files, pc, f_in, f_out,
          out_buffer, content, file_hash, file_size, file_content_b64, data,
          request, stdout, exc, at_start, last_ok, quiet>>

----------------------------------------------------------------------------
(* Bounds of the model.                                                    *)

\* input contents: every byte string over ByteVals up to this length
MaxLen == 1
\* a failed flush leaves a prefix of at most this many characters
MaxTrunc == 1
\* length of the foreign content the environment may put at the output path
JunkLen == 600

ByteVals == {0, 255}

Hello == <<104, 101, 108, 108, 111>>
\* three bytes whose base64 text is "+/++"
PlusSlash == <<251, 255, 190>>

RECURSIVE SeqsUpTo(_)
SeqsUpTo(n) ==
  IF n = 0 THEN {<<>>}
  ELSE LET S == SeqsUpTo(n - 1)
       IN  S \cup {Append(s, b) : s \in {x \in S : Len(x) = n - 1}, b \in ByteVals}

Contents == SeqsUpTo(MaxLen) \cup {Hello, PlusSlash}

----------------------------------------------------------------------------
(* String constants of the script.                                         *)

INPUT_PATH == << "t", "e", "s", "t", "_", "f", "i", "l", "e", ".", "t", "x", "t" >>
MIME_TYPE == << "t", "e", "x", "t", "/", "p", "l", "a", "i", "n" >>
ENCRYPTED_KEY == << "d", "G", "V", "z", "d", "G", "t", "l", "e", "Q", "=", "=" >>
SUCCESS_MESSAGE == << "R", "e", "q", "u", "e", "s", "t", " ", "c", "r", "e", "a", "t", "e", "d", " ", "s", "u", "c",
     "c", "e", "s", "s", "f", "u", "l", "l", "y" >>
QUERY == << "m", "u", "t", "a", "t", "i", "o", "n", " ", "U", "p", "l", "o", "a", "d", "F", "i", "l", "e",
     "F", "r", "o", "m", "M", "a", "p", "(", "$", "i", "n", "p", "u", "t", ":", " ", "U", "p", "l",
     "o", "a", "d", "F", "i", "l", "e", "F", "r", "o", "m", "M", "a", "p", "I", "n", "p", "u", "t",
     "!", ")", " ", "{", " ", "u", "p", "l", "o", "a", "d", "F", "i", "l", "e", "F", "r", "o", "m",
     "M", "a", "p", "(", "i", "n", "p", "u", "t", ":", " ", "$", "i", "n", "p", "u", "t", ")", " ",
     "{", " ", "i", "d", " ", "f", "i", "l", "e", "n", "a", "m", "e", " ", "m", "i", "m", "e", "_",
     "t", "y", "p", "e", " ", "f", "i", "l", "e", " ", "{", " ", "s", "i", "z", "e", "_", "b", "y",
     "t", "e", "s", " ", "}", " ", "}", " ", "}" >>

K_filename == << "f", "i", "l", "e", "n", "a", "m", "e" >>
K_content_hash == << "c", "o", "n", "t", "e", "n", "t", "_", "h", "a", "s", "h" >>
K_size_bytes == << "s", "i", "z", "e", "_", "b", "y", "t", "e", "s" >>
K_mime_type == << "m", "i", "m", "e", "_", "t", "y", "p", "e" >>
K_encrypted_key == << "e", "n", "c", "r", "y", "p", "t", "e", "d", "_", "k", "e", "y" >>
K_file_data == << "f", "i", "l", "e", "_", "d", "a", "t", "a" >>
K_query == << "q", "u", "e", "r", "y" >>
K_variables == << "v", "a", "r", "i", "a", "b", "l", "e", "s" >>
K_input == << "i", "n", "p", "u", "t" >>
K_data == << "d", "a", "t", "a" >>

----------------------------------------------------------------------------
(* hashlib.sha256(content).hexdigest()  (FIPS 180-4).  A 32-bit word is    *)
(* the pair <<high 16 bits, low 16 bits>>.                                  *)

W16 == 65536

RECURSIVE Xor3(_, _, _, _)
Xor3(a, b, c, n) ==
  IF n = 0 THEN 0
  ELSE ((a + b + c) % 2) + 2 * Xor3(a \div 2, b \div 2, c \div 2, n - 1)

RECURSIVE ChBits(_, _, _, _)
ChBits(e, f, g, n) ==
  IF n = 0 THEN 0
  ELSE (IF (e % 2) = 1 THEN (f % 2) ELSE (g % 2))
       + 2 * ChBits(e \div 2, f \div 2, g \div 2, n - 1)

RECURSIVE MajBits(_, _, _, _)
MajBits(a, b, c, n) ==
  IF n = 0 THEN 0
  ELSE (((a % 2) + (b % 2) + (c % 2)) \div 2)
       + 2 * MajBits(a \div 2, b \div 2, c \div 2, n - 1)

Rotr(w, n) ==
  LET v == IF n >= 16 THEN <<w[2], w[1]>> ELSE w
      k == n % 16
      p == 2 ^ k
      q == 2 ^ (16 - k)
  IN  IF k = 0 THEN v
      ELSE <<(v[1] \div p) + (v[2] % p) * q, (v[2] \div p) + (v[1] % p) * q>>

Shr(w, n) ==
  LET p == 2 ^ n
      q == 2 ^ (16 - n)
  IN  <<w[1] \div p, (w[2] \div p) + (w[1] % p) * q>>

WXor3(a, b, c) == <<Xor3(a[1], b[1], c[1], 16), Xor3(a[2], b[2], c[2], 16)>>
WCh(e, f, g) == <<ChBits(e[1], f[1], g[1], 16), ChBits(e[2], f[2], g[2], 16)>>
WMaj(a, b, c) == <<MajBits(a[1], b[1], c[1], 16), MajBits(a[2], b[2], c[2], 16)>>

RECURSIVE SumHi(_)
SumHi(ws) == IF ws = <<>> THEN 0 ELSE ws[1][1] + SumHi(Tail(ws))

RECURSIVE SumLo(_)
SumLo(ws) == IF ws = <<>> THEN 0 ELSE ws[1][2] + SumLo(Tail(ws))

\* the sum of the words ws modulo 2^32
WAdd(ws) ==
  LET lo == SumLo(ws)
  IN  <<(SumHi(ws) + (lo \div W16)) % W16, lo % W16>>

BigSigma0(a) == WXor3(Rotr(a, 2), Rotr(a, 13), Rotr(a, 22))
BigSigma1(e) == WXor3(Rotr(e, 6), Rotr(e, 11), Rotr(e, 25))
SmallSigma0(w) == WXor3(Rotr(w, 7), Rotr(w, 18), Shr(w, 3))
SmallSigma1(w) == WXor3(Rotr(w, 17), Rotr(w, 19), Shr(w, 10))

\* the initial hash value of SHA-224, which a sha224 call would use
H0_sha224 ==
  << <<49413, 40664>>, <<13948, 54535>>, <<12400, 56599>>, <<63246, 22841>>,
     <<65472, 2865>>, <<26712, 5393>>, <<25849, 36775>>, <<48890, 20388>> >>

H0 ==
  << <<27145, 58983>>, <<47975, 44677>>, <<15470, 62322>>, <<42319, 62778>>,
     <<20750, 21119>>, <<39685, 26764>>, <<8067, 55723>>, <<23520, 52505>> >>

K ==
  << <<17034, 12184>>, <<28983, 17553>>, <<46528, 64463>>, <<59829, 56229>>,
     <<14678, 49755>>, <<23025, 4593>>, <<37439, 33444>>, <<43804, 24277>>,
     <<55303, 43672>>, <<4739, 23297>>, <<9265, 34238>>, <<21772, 32195>>,
     <<29374, 23924>>, <<32990, 45566>>, <<39900, 1703>>, <<49563, 61812>>,
     <<58523, 27073>>, <<61374, 18310>>, <<4033, 40390>>, <<9228, 41420>>,
     <<11753, 11375>>, <<19060, 33962>>, <<23728, 43484>>, <<30457, 35034>>,
     <<38974, 20818>>, <<43057, 50797>>, <<45059, 10184>>, <<48985, 32711>>,
     <<50912, 3059>>, <<54695, 37191>>, <<1738, 25425>>, <<5161, 10599>>,
     <<10167, 2693>>, <<11803, 8504>>, <<19756, 28156>>, <<21304, 3347>>,
     <<25866, 29524>>, <<30314, 2747>>, <<33218, 51502>>, <<37490, 11397>>,
     <<41663, 59553>>, <<43034, 26187>>, <<49739, 35696>>, <<51052, 20899>>,
     <<53650, 59417>>, <<54937, 1572>>, <<62478, 13701>>, <<4202, 41072>>,
     <<6564, 49430>>, <<7735, 27656>>, <<10056, 30540>>, <<13488, 48309>>,
     <<14620, 3251>>, <<20184, 43594>>, <<23452, 51791>>, <<26670, 28659>>,
     <<29839, 33518>>, <<30885, 25455>>, <<33992, 30740>>, <<36039, 520>>,
     <<37054, 65530>>, <<42064, 27883>>, <<48889, 41975>>, <<50801, 30962>> >>

\* the message length in bits as 8 big-endian bytes (messages below 2^21 bytes)
LenBytes(n) ==
  LET bits == n * 8
  IN  <<0, 0, 0, 0, 0, (bits \div 65536) % 256, (bits \div 256) % 256, bits % 256>>

Pad(m) ==
  LET n == Len(m)
      z == (119 - (n % 64)) % 64
  IN  m \o <<128>> \o [i \in 1..z |-> 0] \o LenBytes(n)

\* the 16 words of block b of the padded message p
BlockWords(p, b) ==
  [t \in 1..16 |->
     LET o == 64 * (b - 1) + 4 * (t - 1)
     IN  <<p[o + 1] * 256 + p[o + 2], p[o + 3] * 256 + p[o + 4]>>]

NextWord(w) ==
  LET t == Len(w) + 1
  IN  WAdd(<<SmallSigma1(w[t - 2]), w[t - 7], SmallSigma0(w[t - 15]), w[t - 16]>>)

\* w extended by n further words of the message schedule.  The recursion
\* halves n, and the test on v has v computed before the second half starts,
\* so the evaluation stays shallow.
RECURSIVE Extend(_, _)
Extend(w, n) ==
  IF n = 1 THEN Append(w, NextWord(w))
  ELSE LET v == Extend(w, n \div 2)
       IN  IF Len(v) > 0 THEN Extend(v, n - (n \div 2)) ELSE v

Schedule(blk) == Extend(blk, 48)

Round(s, w, t) ==
  LET t1 == WAdd(<<s[8], BigSigma1(s[5]), WCh(s[5], s[6], s[7]), K[t], w[t]>>)
      t2 == WAdd(<<BigSigma0(s[1]), WMaj(s[1], s[2], s[3])>>)
  IN  <<WAdd(<<t1, t2>>), s[1], s[2], s[3], WAdd(<<s[4], t1>>), s[5], s[6], s[7]>>

\* rounds lo..hi applied in order to the working variables s (halved as Extend)
RECURSIVE Rounds(_, _, _, _)
Rounds(s, w, lo, hi) ==
  IF lo = hi THEN Round(s, w, lo)
  ELSE LET mid == (lo + hi) \div 2
           v == Rounds(s, w, lo, mid)
       IN  IF Len(v) > 0 THEN Rounds(v, w, mid + 1, hi) ELSE v

Compress(h, blk) ==
  LET s == Rounds(h, Schedule(blk), 1, 64)
  IN  [i \in 1..8 |-> WAdd(<<h[i], s[i]>>)]

RECURSIVE Blocks(_, _, _)
Blocks(h, p, b) ==
  IF 64 * (b - 1) >= Len(p) THEN h
  ELSE Blocks(Compress(h, BlockWords(p, b)), p, b + 1)

\* the 32 bytes of the digest
sha256(m) ==
  LET h == Blocks(H0, Pad(m), 1)
  IN  [i \in 1..32 |->
        LET w == h[((i - 1) \div 4) + 1]
            j == (i - 1) % 4
        IN  IF j = 0 THEN w[1] \div 256
            ELSE IF j = 1 THEN w[1] % 256
            ELSE IF j = 2 THEN w[2] \div 256
            ELSE w[2] % 256]

HexDigits == <<"0", "1", "2", "3", "4", "5", "6", "7", "8", "9", "a", "b", "c", "d", "e", "f">>

hexdigest(d) ==
  [i \in 1..(2 * Len(d)) |->
     LET b == d[(i + 1) \div 2]
     IN  IF (i % 2) = 1 THEN HexDigits[(b \div 16) + 1] ELSE HexDigits[(b % 16) + 1]]

\* the digests of the contents of the model, computed once
Sha256Hex == [c \in Contents |-> hexdigest(sha256(c))]

----------------------------------------------------------------------------
(* base64.b64encode(content).decode()                                      *)

\* the ASCII codes of the URL-safe alphabet of base64.urlsafe_b64encode
B64CodesUrlSafe ==
  << 65, 66, 67, 68, 69, 70, 71, 72, 73, 74, 75, 76, 77, 78, 79, 80,
     81, 82, 83, 84, 85, 86, 87, 88, 89, 90, 97, 98, 99, 100, 101, 102,
     103, 104, 105, 106, 107, 108, 109, 110, 111, 112, 113, 114, 115, 116, 117, 118,
     119, 120, 121, 122, 48, 49, 50, 51, 52, 53, 54, 55, 56, 57, 45, 95 >>

\* the ASCII codes of the base64 alphabet, and of the padding "="
B64Codes ==
  << 65, 66, 67, 68, 69, 70, 71, 72, 73, 74, 75, 76, 77, 78, 79, 80,
     81, 82, 83, 84, 85, 86, 87, 88, 89, 90, 97, 98, 99, 100, 101, 102,
     103, 104, 105, 106, 107, 108, 109, 110, 111, 112, 113, 114, 115, 116, 117, 118,
     119, 120, 121, 122, 48, 49, 50, 51, 52, 53, 54, 55, 56, 57, 43, 47 >>
B64Pad == 61

\* the printable ASCII characters of codes 32..95 and 97..126
AsciiLow == << " ", "!", "\"", "#", "$", "%", "&", "'", "(", ")", "*", "+", ",", "-", ".", "/", "0", "1", "2",
     "3", "4", "5", "6", "7", "8", "9", ":", ";", "<", "=", ">", "?", "@", "A", "B", "C", "D", "E",
     "F", "G", "H", "I", "J", "K", "L", "M", "N", "O", "P", "Q", "R", "S", "T", "U", "V", "W", "X",
     "Y", "Z", "[", "\\", "]", "^", "_" >>
AsciiHigh == << "a", "b", "c", "d", "e", "f", "g", "h", "i", "j", "k", "l", "m", "n", "o", "p", "q", "r", "s",
     "t", "u", "v", "w", "x", "y", "z", "{", "|", "}", "~" >>
Chr(b) == IF b < 96 THEN AsciiLow[b - 31] ELSE AsciiHigh[b - 96]

b64encode(m) ==
  LET n == Len(m)
      byte(i) == IF i <= n THEN m[i] ELSE 0
  IN  [i \in 1..(4 * ((n + 2) \div 3)) |->
        LET g == (i - 1) \div 4
            k == (i - 1) % 4
            v == byte(3 * g + 1) * 65536 + byte(3 * g + 2) * 256 + byte(3 * g + 3)
        IN  IF 3 * g + k > n THEN B64Pad
            ELSE B64Codes[((v \div (64 ^ (3 - k))) % 64) + 1]]

\* bytes.decode(): the text of ASCII bytes
decode(bs) == [i \in 1..Len(bs) |-> Chr(bs[i])]

----------------------------------------------------------------------------
(* JSON values: a Python str, int or dict (its items in insertion order).  *)

JStr(s) == [t |-> "str", s |-> s, n |-> 0, o |-> <<>>]
JInt(n) == [t |-> "int", s |-> <<>>, n |-> n, o |-> <<>>]
JObj(items) == [t |-> "obj", s |-> <<>>, n |-> 0, o |-> items]
Item(k, v) == [k |-> k, v |-> v]

\* str(n) of an int n >= 0
RECURSIVE Decimal(_)
Decimal(n) ==
  IF n < 10 THEN <<HexDigits[n + 1]>>
  ELSE Append(Decimal(n \div 10), HexDigits[(n % 10) + 1])

\* json's escape of one character of a str (ensure_ascii; the text of the
\* model is printable ASCII plus these control characters)
EscapeChar(c) ==
  IF c = "\"" THEN <<"\\", "\"">>
  ELSE IF c = "\\" THEN <<"\\", "\\">>
  ELSE IF c = "\n" THEN <<"\\", "n">>
  ELSE IF c = "\r" THEN <<"\\", "r">>
  ELSE IF c = "\t" THEN <<"\\", "t">>
  ELSE <<c>>

\* the escapes of s[lo..hi], concatenated
RECURSIVE Escape(_, _, _)
Escape(s, lo, hi) ==
  IF lo > hi THEN <<>>
  ELSE IF lo = hi THEN EscapeChar(s[lo])
  ELSE LET mid == (lo + hi) \div 2
       IN  Escape(s, lo, mid) \o Escape(s, mid + 1, hi)

EncodeString(s) == <<"\"">> \o Escape(s, 1, Len(s)) \o <<"\"">>

\* json.dumps(v) with the default separators ", " and ": "
RECURSIVE dumps(_)
RECURSIVE DumpItems(_, _)
DumpItems(items, i) ==
  LET one == EncodeString(items[i].k) \o <<":", " ">> \o dumps(items[i].v)
  IN  IF i = Len(items) THEN one
      ELSE one \o <<",", " ">> \o DumpItems(items, i + 1)

dumps(v) ==
  IF v.t = "str" THEN EncodeString(v.s)
  ELSE IF v.t = "int" THEN Decimal(v.n)
  ELSE IF v.o = <<>> THEN <<"{", "}">>
  ELSE <<"{">> \o DumpItems(v.o, 1) \o <<"}">>

----------------------------------------------------------------------------
(* json.loads and base64.b64decode, the inverses the properties are        *)
(* stated with.  A text that is not JSON parses to JErr.                    *)

JErr == [t |-> "err", s |-> <<>>, n |-> 0, o |-> <<>>]
Parsed(v, pos) == [ok |-> TRUE, v |-> v, pos |-> pos]
NoParse == [ok |-> FALSE, v |-> JErr, pos |-> 0]

IsWs(c) == c \in {" ", "\n", "\r", "\t"}
IsDigit(c) == c \in {"0", "1", "2", "3", "4", "5", "6", "7", "8", "9"}
DigitVal(c) == CHOOSE d \in 0..9 : HexDigits[d + 1] = c

\* the first position from i on that holds no white space (Len(t) + 1: none)
SkipWs(t, i) ==
  CHOOSE j \in i..(Len(t) + 1) :
    /\ j = Len(t) + 1 \/ ~IsWs(t[j])
    /\ \A m \in i..(j - 1) : IsWs(t[m])

\* the number of backslashes that directly precede position k, down to lo
BackslashRun(t, lo, k) ==
  CHOOSE r \in 0..(k - lo) :
    /\ r = k - lo \/ t[k - 1 - r] # "\\"
    /\ \A m \in 0..(r - 1) : t[k - 1 - m] = "\\"

\* position k holds the quote that closes the string opened at position q
ClosesString(t, q, k) == t[k] = "\"" /\ (BackslashRun(t, q + 1, k) % 2) = 0

UnescapeChar(c) ==
  IF c = "n" THEN "\n" ELSE IF c = "r" THEN "\r" ELSE IF c = "t" THEN "\t" ELSE c

\* position k of a string body that starts at lo holds an escaping backslash
Escaping(t, lo, k) == t[k] = "\\" /\ (BackslashRun(t, lo, k) % 2) = 0

\* the characters that the string body t[lo..hi] stands for
RECURSIVE Unescape(_, _, _, _)
Unescape(t, base, lo, hi) ==
  IF lo > hi THEN <<>>
  ELSE IF lo = hi THEN <<t[lo]>>
  ELSE IF hi = lo + 1 /\ Escaping(t, base, lo) THEN <<UnescapeChar(t[hi])>>
  ELSE LET m == (lo + hi) \div 2
           mid == IF Escaping(t, base, m) THEN m + 1 ELSE m
       IN  IF mid = hi THEN Unescape(t, base, lo, m - 1) \o Unescape(t, base, m, hi)
           ELSE Unescape(t, base, lo, mid) \o Unescape(t, base, mid + 1, hi)

ParseString(t, q) ==
  IF \E k \in (q + 1)..Len(t) : ClosesString(t, q, k)
  THEN LET e == CHOOSE k \in (q + 1)..Len(t) :
                  /\ ClosesString(t, q, k)
                  /\ \A m \in (q + 1)..(k - 1) : ~ClosesString(t, q, m)
       IN  Parsed(JStr(Unescape(t, q + 1, q + 1, e - 1)), e + 1)
  ELSE NoParse

RECURSIVE DigitsValue(_, _, _)
DigitsValue(t, lo, hi) ==
  IF lo > hi THEN 0 ELSE 10 * DigitsValue(t, lo, hi - 1) + DigitVal(t[hi])

ParseInt(t, i) ==
  LET e == CHOOSE j \in i..(Len(t) + 1) :
             /\ j = Len(t) + 1 \/ ~IsDigit(t[j])
             /\ \A m \in i..(j - 1) : IsDigit(t[m])
  IN  IF e = i \/ e - i > 9 THEN NoParse
      ELSE Parsed(JInt(DigitsValue(t, i, e - 1)), e)

RECURSIVE ParseValue(_, _)
RECURSIVE ParseMembers(_, _, _)

\* the members of an object from position i on, after the items acc
ParseMembers(t, i, acc) ==
  LET q == SkipWs(t, i)
  IN  IF q > Len(t) \/ t[q] # "\"" THEN NoParse
      ELSE LET key == ParseString(t, q)
           IN  IF ~key.ok THEN NoParse
               ELSE LET c == SkipWs(t, key.pos)
                    IN  IF c > Len(t) \/ t[c] # ":" THEN NoParse
                        ELSE LET val == ParseValue(t, c + 1)
                             IN  IF ~val.ok THEN NoParse
                                 ELSE LET d == SkipWs(t, val.pos)
                                          items == Append(acc, Item(key.v.s, val.v))
                                      IN  IF d > Len(t) THEN NoParse
                                          ELSE IF t[d] = "}" THEN Parsed(JObj(items), d + 1)
                                          ELSE IF t[d] = "," THEN ParseMembers(t, d + 1, items)
                                          ELSE NoParse

ParseValue(t, i) ==
  LET j == SkipWs(t, i)
  IN  IF j > Len(t) THEN NoParse
      ELSE IF t[j] = "\"" THEN ParseString(t, j)
      ELSE IF IsDigit(t[j]) THEN ParseInt(t, j)
      ELSE IF t[j] = "{"
        THEN LET k == SkipWs(t, j + 1)
             IN  IF k <= Len(t) /\ t[k] = "}" THEN Parsed(JObj(<<>>), k + 1)
                 ELSE ParseMembers(t, j + 1, <<>>)
      ELSE NoParse

loads(t) ==
  LET r == ParseValue(t, 1)
  IN  IF r.ok /\ SkipWs(t, r.pos) = Len(t) + 1 THEN r.v ELSE JErr

Keys(v) == {v.o[i].k : i \in 1..Len(v.o)}
HasKey(v, k) == v.t = "obj" /\ \E i \in 1..Len(v.o) : v.o[i].k = k
\* the value of key k (of its last occurrence, as json.loads keeps it)
Get(v, k) ==
  IF HasKey(v, k)
  THEN v.o[CHOOSE i \in 1..Len(v.o) :
             v.o[i].k = k /\ \A j \in (i + 1)..Len(v.o) : v.o[j].k # k].v
  ELSE JErr
\* v is an object with exactly the keys ks, each once
HasExactlyKeys(v, ks) ==
  v.t = "obj" /\ Len(v.o) = Cardinality(ks) /\ Keys(v) = ks

\* the base64 alphabet (RFC 4648), in the order of its values 0..63
B64Chars ==
  << "A", "B", "C", "D", "E", "F", "G", "H", "I", "J", "K", "L", "M", "N", "O", "P",
     "Q", "R", "S", "T", "U", "V", "W", "X", "Y", "Z", "a", "b", "c", "d", "e", "f",
     "g", "h", "i", "j", "k", "l", "m", "n", "o", "p", "q", "r", "s", "t", "u", "v",
     "w", "x", "y", "z", "0", "1", "2", "3", "4", "5", "6", "7", "8", "9", "+", "/" >>
IsB64Char(c) == \E k \in 1..64 : B64Chars[k] = c
Sextet(c) == IF c = "=" THEN 0 ELSE (CHOOSE k \in 1..64 : B64Chars[k] = c) - 1

\* the "=" characters that end s (at most two are padding)
PadCount(s) ==
  IF Len(s) >= 2 /\ s[Len(s)] = "=" /\ s[Len(s) - 1] = "=" THEN 2
  ELSE IF Len(s) >= 1 /\ s[Len(s)] = "=" THEN 1
  ELSE 0

IsB64(s) ==
  /\ (Len(s) % 4) = 0
  /\ \A i \in 1..(Len(s) - PadCount(s)) : IsB64Char(s[i])

\* base64.b64decode(s) of a well-formed s
b64decode(s) ==
  [i \in 1..(3 * (Len(s) \div 4) - PadCount(s)) |->
     LET g == (i - 1) \div 3
         k == (i - 1) % 3
         v == Sextet(s[4 * g + 1]) * 262144 + Sextet(s[4 * g + 2]) * 4096
              + Sextet(s[4 * g + 3]) * 64 + Sextet(s[4 * g + 4])
     IN  (v \div (256 ^ (2 - k))) % 256]

----------------------------------------------------------------------------
(* Files, exceptions and the history variables.                            *)

NoInput == [exists |-> FALSE, readable |-> FALSE, data |-> <<>>]
InputFile(bytes, readable) == [exists |-> TRUE, readable |-> readable, data |-> bytes]
NoFile == [exists |-> FALSE, data |-> <<>>]
File(text) == [exists |-> TRUE, data |-> text]

NoExc == [type |-> "none", at |-> "none"]
Raised(type, at) == [type |-> type, at |-> at]

NoSnapshot == [input |-> NoInput, output |-> NoFile, writable |-> FALSE, other |-> 0]
NoRun == [some |-> FALSE, input |-> <<>>, output |-> <<>>]

\* content that is not a request document, longer than any document of the model
Junk == [i \in 1..JunkLen |-> "#"]

----------------------------------------------------------------------------
(* The statements of the script.                                           *)

\* line 33: the mode the output file is opened in
OutputModeAppend == "a"

OutputMode == "w"

\* open(path, mode) of a writable path without truncation (as "r+" leaves it)
OpenFileKeep(file, mode) == File(file.data)

\* the file after a successful open(path, mode): "w" creates or truncates,
\* "a" creates or keeps
OpenFile(file, mode) == IF mode = "w" THEN File(<<>>) ELSE File(file.data)

\* the file after text is written through a handle opened in mode: "w" writes
\* from offset 0 over what the file holds, "a" writes at the end
Flush(file, text, mode) ==
  IF mode = "a" THEN File(file.data \o text)
  ELSE File(text \o SubSeq(file.data, Len(text) + 1, Len(file.data)))

\* lines 15-22 with size_bytes taken from the encoded text
MakeDataEncodedSize(hash, size, b64) ==
  JObj(<<Item(K_filename, JStr(INPUT_PATH)),
         Item(K_content_hash, JStr(hash)),
         Item(K_size_bytes, JInt(Len(b64))),
         Item(K_mime_type, JStr(MIME_TYPE)),
         Item(K_encrypted_key, JStr(ENCRYPTED_KEY)),
         Item(K_file_data, JStr(b64))>>)

\* lines 15-22 with the key taken from the content
MakeDataKeyFromContent(hash, size, b64) ==
  JObj(<<Item(K_filename, JStr(INPUT_PATH)),
         Item(K_content_hash, JStr(hash)),
         Item(K_size_bytes, JInt(size)),
         Item(K_mime_type, JStr(MIME_TYPE)),
         Item(K_encrypted_key, JStr(b64)),
         Item(K_file_data, JStr(b64))>>)

\* lines 15-22: the dict data
MakeData(hash, size, b64) ==
  JObj(<<Item(K_filename, JStr(INPUT_PATH)),
         Item(K_content_hash, JStr(hash)),
         Item(K_size_bytes, JInt(size)),
         Item(K_mime_type, JStr(MIME_TYPE)),
         Item(K_encrypted_key, JStr(ENCRYPTED_KEY)),
         Item(K_file_data, JStr(b64))>>)

\* lines 24-31 with the dict itself, not its JSON text, under "data"
MakeRequestNested(d) ==
  JObj(<<Item(K_query, JStr(QUERY)),
         Item(K_variables, JObj(<<Item(K_input, JObj(<<Item(K_data, d)>>))>>))>>)

\* lines 24-31: the dict request
MakeRequest(d) ==
  JObj(<<Item(K_query, JStr(QUERY)),
         Item(K_variables,
              JObj(<<Item(K_input, JObj(<<Item(K_data, JStr(dumps(d)))>>))>>))>>)

locals == <<content, file_hash, file_size, file_content_b64, data, request>>
files == <<input_file, output_file, output_writable, other_files>>
history == <<at_start, last_ok, quiet>>

Init ==
  /\ input_file = NoInput
  /\ output_file = NoFile
  /\ output_writable = TRUE
  /\ other_files = 0
  /\ pc = "idle"
  /\ f_in = FALSE
  /\ f_out = FALSE
  /\ out_buffer = <<>>
  /\ content = <<>>
  /\ file_hash = <<>>
  /\ file_size = 0
  /\ file_content_b64 = <<>>
  /\ data = JObj(<<>>)
  /\ request = JObj(<<>>)
  /\ stdout = <<>>
  /\ exc = NoExc
  /\ at_start = NoSnapshot
  /\ last_ok = NoRun
  /\ quiet = FALSE

\* the process ends with an unhandled exception; a with block has closed its file
Abort(type, at) ==
  /\ exc' = Raised(type, at)
  /\ pc' = "exit"

\* python create_request.py
StartRun ==
  /\ pc = "idle"
  /\ pc' = "open_input"
  /\ at_start' = [input |-> input_file, output |-> output_file,
                  writable |-> output_writable, other |-> other_files]
  /\ UNCHANGED <<files, f_in, f_out, out_buffer, locals, stdout, exc, last_ok, quiet>>

\* line 6 in a script that has already opened (and so emptied) its output
OpenInputAfterOutput ==
  /\ pc = "open_input"
  /\ output_file' = File(<<>>)
  /\ IF ~input_file.exists
       THEN Abort("FileNotFoundError", "open_input") /\ UNCHANGED f_in
     ELSE IF ~input_file.readable
       THEN Abort("PermissionError", "open_input") /\ UNCHANGED f_in
     ELSE f_in' = TRUE /\ pc' = "read" /\ UNCHANGED exc
  /\ UNCHANGED <<input_file, output_writable, other_files, f_out, out_buffer,
                 locals, stdout, history>>

\* line 6: with open('test_file.txt', 'rb') as f
OpenInput ==
  /\ pc = "open_input"
  /\ IF ~input_file.exists
       THEN Abort("FileNotFoundError", "open_input") /\ UNCHANGED f_in
     ELSE IF ~input_file.readable
       THEN Abort("PermissionError", "open_input") /\ UNCHANGED f_in
     ELSE f_in' = TRUE /\ pc' = "read" /\ UNCHANGED exc
  /\ UNCHANGED <<files, f_out, out_buffer, locals, stdout, history>>

\* line 7: content = f.read()
ReadInput ==
  /\ pc = "read"
  /\ content' = input_file.data
  /\ pc' = "close_input"
  /\ UNCHANGED <<files, f_in, f_out, out_buffer, file_hash, file_size,
                 file_content_b64, data, request, stdout, exc, history>>

\* line 7: the read fails with an I/O error; leaving the with block closes f
ReadInputFails ==
  /\ pc = "read"
  /\ f_in' = FALSE
  /\ Abort("OSError", "read_input")
  /\ UNCHANGED <<files, f_out, out_buffer, locals, stdout, history>>

\* the end of the with block of line 6 with f left open
CloseInputLeak ==
  /\ pc = "close_input"
  /\ pc' = "hash"
  /\ UNCHANGED <<files, f_in, f_out, out_buffer, locals, stdout, exc, history>>

\* the end of the with block of line 6: f is closed
CloseInput ==
  /\ pc = "close_input"
  /\ f_in' = FALSE
  /\ pc' = "hash"
  /\ UNCHANGED <<files, f_out, out_buffer, locals, stdout, exc, history>>

\* line 10: file_hash = hashlib.sha256(content).hexdigest()
ComputeHash ==
  /\ pc = "hash"
  /\ file_hash' = Sha256Hex[content]
  /\ pc' = "size"
  /\ UNCHANGED <<files, f_in, f_out, out_buffer, content, file_size,
                 file_content_b64, data, request, stdout, exc, history>>

\* line 11: file_size = len(content)
ComputeSize ==
  /\ pc = "size"
  /\ file_size' = Len(content)
  /\ pc' = "b64"
  /\ UNCHANGED <<files, f_in, f_out, out_buffer, content, file_hash,
                 file_content_b64, data, request, stdout, exc, history>>

\* line 12: file_content_b64 = base64.b64encode(content).decode()
EncodeContent ==
  /\ pc = "b64"
  /\ file_content_b64' = decode(b64encode(content))
  /\ pc' = "data"
  /\ UNCHANGED <<files, f_in, f_out, out_buffer, content, file_hash, file_size,
                 data, request, stdout, exc, history>>

\* lines 15-22: data = {...}
BuildData ==
  /\ pc = "data"
  /\ data' = MakeData(file_hash, file_size, file_content_b64)
  /\ pc' = "request"
  /\ UNCHANGED <<files, f_in, f_out, out_buffer, content, file_hash, file_size,
                 file_content_b64, request, stdout, exc, history>>

\* lines 24-31: request = {...}, with json.dumps(data) of line 28
BuildRequest ==
  /\ pc = "request"
  /\ request' = MakeRequest(data)
  /\ pc' = "open_output"
  /\ UNCHANGED <<files, f_in, f_out, out_buffer, content, file_hash, file_size,
                 file_content_b64, data, stdout, exc, history>>

\* line 33 in a script that removes the output file when it cannot open it
OpenOutputRemoveOnFailure ==
  /\ pc = "open_output"
  /\ IF ~output_writable
       THEN /\ Abort("PermissionError", "open_output")
            /\ output_file' = NoFile
            /\ UNCHANGED f_out
       ELSE /\ output_file' = OpenFile(output_file, OutputMode)
            /\ f_out' = TRUE
            /\ pc' = "dump"
            /\ UNCHANGED exc
  /\ UNCHANGED <<input_file, output_writable, other_files, f_in, out_buffer,
                 locals, stdout, history>>

\* line 33: with open('upload_request.json', 'w') as f
OpenOutput ==
  /\ pc = "open_output"
  /\ IF ~output_writable
       THEN /\ Abort("PermissionError", "open_output")
            /\ UNCHANGED <<output_file, f_out>>
       ELSE /\ output_file' = OpenFile(output_file, OutputMode)
            /\ f_out' = TRUE
            /\ pc' = "dump"
            /\ UNCHANGED exc
  /\ UNCHANGED <<input_file, output_writable, other_files, f_in, out_buffer,
                 locals, stdout, history>>

\* line 34: json.dump(request, f); the text stays in the buffer of f (the
\* documents of the model are shorter than the buffer)
DumpRequest ==
  /\ pc = "dump"
  /\ out_buffer' = dumps(request)
  /\ pc' = "close_output"
  /\ UNCHANGED <<files, f_in, f_out, locals, stdout, exc, history>>

\* the end of the with block of line 33: f is flushed and closed
CloseOutput ==
  /\ pc = "close_output"
  /\ output_file' = Flush(output_file, out_buffer, OutputMode)
  /\ out_buffer' = <<>>
  /\ f_out' = FALSE
  /\ pc' = "print"
  /\ UNCHANGED <<input_file, output_writable, other_files, f_in, locals, stdout,
                 exc, history>>

\* the flush fails (disk full, I/O error) after k characters; f is closed
CloseOutputFails ==
  /\ pc = "close_output"
  /\ \E k \in 0..MaxTrunc :
       /\ k < Len(out_buffer)
       /\ output_file' = Flush(output_file, SubSeq(out_buffer, 1, k), OutputMode)
  /\ out_buffer' = <<>>
  /\ f_out' = FALSE
  /\ Abort("OSError", "write_output")
  /\ UNCHANGED <<input_file, output_writable, other_files, f_in, locals, stdout,
                 history>>

\* line 36: print('Request created successfully')
PrintSuccess ==
  /\ pc = "print"
  /\ stdout' = Append(stdout, SUCCESS_MESSAGE)
  /\ pc' = "exit"
  /\ UNCHANGED <<files, f_in, f_out, out_buffer, locals, exc, history>>

\* the process is gone: nothing of it remains but the files
ProcessExit ==
  /\ pc = "exit"
  /\ pc' = "idle"
  /\ content' = <<>>
  /\ file_hash' = <<>>
  /\ file_size' = 0
  /\ file_content_b64' = <<>>
  /\ data' = JObj(<<>>)
  /\ request' = JObj(<<>>)
  /\ stdout' = <<>>
  /\ exc' = NoExc
  /\ at_start' = NoSnapshot
  /\ last_ok' = IF exc.type = "none"
                THEN [some |-> TRUE, input |-> input_file.data, output |-> output_file.data]
                ELSE last_ok
  /\ quiet' = (exc.type = "none")
  /\ UNCHANGED <<files, f_in, f_out, out_buffer>>

Step ==
  \/ OpenInput
  \/ ReadInput
  \/ ReadInputFails
  \/ CloseInput
  \/ ComputeHash
  \/ ComputeSize
  \/ EncodeContent
  \/ BuildData
  \/ BuildRequest
  \/ OpenOutput
  \/ DumpRequest
  \/ CloseOutput
  \/ CloseOutputFails
  \/ PrintSuccess

----------------------------------------------------------------------------
(* The environment, between two runs.                                      *)

EnvWriteInput ==
  /\ pc = "idle"
  /\ \E c \in Contents : input_file' = InputFile(c, TRUE)
  /\ quiet' = FALSE
  /\ UNCHANGED <<output_file, output_writable, other_files, pc, f_in, f_out,
                 out_buffer, locals, stdout, exc, at_start, last_ok>>

EnvRemoveInput ==
  /\ pc = "idle"
  /\ input_file.exists
  /\ input_file' = NoInput
  /\ quiet' = FALSE
  /\ UNCHANGED <<output_file, output_writable, other_files, pc, f_in, f_out,
                 out_buffer, locals, stdout, exc, at_start, last_ok>>

EnvChmodInput ==
  /\ pc = "idle"
  /\ input_file.exists
  /\ input_file' = [input_file EXCEPT !.readable = ~input_file.readable]
  /\ quiet' = FALSE
  /\ UNCHANGED <<output_file, output_writable, other_files, pc, f_in, f_out,
                 out_buffer, locals, stdout, exc, at_start, last_ok>>

EnvWriteOutput ==
  /\ pc = "idle"
  /\ output_file' = File(Junk)
  /\ quiet' = FALSE
  /\ UNCHANGED <<input_file, output_writable, other_files, pc, f_in, f_out,
                 out_buffer, locals, stdout, exc, at_start, last_ok>>

EnvRemoveOutput ==
  /\ pc = "idle"
  /\ output_file.exists
  /\ output_file' = NoFile
  /\ quiet' = FALSE
  /\ UNCHANGED <<input_file, output_writable, other_files, pc, f_in, f_out,
                 out_buffer, locals, stdout, exc, at_start, last_ok>>

EnvChmodOutput ==
  /\ pc = "idle"
  /\ output_writable' = ~output_writable
  /\ quiet' = FALSE
  /\ UNCHANGED <<input_file, output_file, other_files, pc, f_in, f_out,
                 out_buffer, locals, stdout, exc, at_start, last_ok>>

EnvTouchOther ==
  /\ pc = "idle"
  /\ other_files' = 1 - other_files
  /\ quiet' = FALSE
  /\ UNCHANGED <<input_file, output_file, output_writable, pc, f_in, f_out,
                 out_buffer, locals, stdout, exc, at_start, last_ok>>

Env ==
  \/ EnvWriteInput
  \/ EnvRemoveInput
  \/ EnvChmodInput
  \/ EnvWriteOutput
  \/ EnvRemoveOutput
  \/ EnvChmodOutput
  \/ EnvTouchOther

Next == StartRun \/ Step \/ ProcessExit \/ Env

Spec == Init /\ [][Next]_vars

\* a started process executes its next statement
LiveSpec == Spec /\ WF_vars(Step)

----------------------------------------------------------------------------
(* What the properties speak of.                                           *)

Succeeded == pc = "exit" /\ exc.type = "none"

\* variables.input.data of a document
DataOf(doc) == Get(Get(Get(doc, K_variables), K_input), K_data)

\* the metadata object that the text of a document carries
Metadata(text) ==
  LET d == DataOf(loads(text))
  IN  IF d.t = "str" THEN loads(d.s) ELSE JErr

MetadataKeys ==
  {K_filename, K_content_hash, K_size_bytes, K_mime_type, K_encrypted_key, K_file_data}

IsPrefix(s, t) == Len(s) <= Len(t) /\ s = SubSeq(t, 1, Len(s))

HelloHash == << "2", "c", "f", "2", "4", "d", "b", "a", "5", "f", "b", "0", "a", "3", "0", "e", "2", "6", "e",
     "8", "3", "b", "2", "a", "c", "5", "b", "9", "e", "2", "9", "e", "1", "b", "1", "6", "1", "e",
     "5", "c", "1", "f", "a", "7", "4", "2", "5", "e", "7", "3", "0", "4", "3", "3", "6", "2", "9",
     "3", "8", "b", "9", "8", "2", "4" >>
EmptyHash == << "e", "3", "b", "0", "c", "4", "4", "2", "9", "8", "f", "c", "1", "c", "1", "4", "9", "a", "f",
     "b", "f", "4", "c", "8", "9", "9", "6", "f", "b", "9", "2", "4", "2", "7", "a", "e", "4", "1",
     "e", "4", "6", "4", "9", "b", "9", "3", "4", "c", "a", "4", "9", "5", "9", "9", "1", "b", "7",
     "8", "5", "2", "b", "8", "5", "5" >>
HelloB64 == << "a", "G", "V", "s", "b", "G", "8", "=" >>

PcOrder ==
  <<"idle", "open_input", "read", "close_input", "hash", "size", "b64", "data",
    "request", "open_output", "dump", "close_output", "print", "exit">>
Rank(p) == CHOOSE i \in 1..Len(PcOrder) : PcOrder[i] = p

----------------------------------------------------------------------------
(* The claims.                                                             *)

\* C1: after a successful run the metadata in the output file has size_bytes
\* equal to the number of bytes of the input file, which is also the number of
\* bytes that its file_data decodes to.
C1_SizeBytes ==
  Succeeded =>
    LET m == Metadata(output_file.data)
        size == Get(m, K_size_bytes)
        fd == Get(m, K_file_data)
    IN  /\ size.t = "int"
        /\ size.n = Len(input_file.data)
        /\ fd.t = "str"
        /\ IsB64(fd.s)
        /\ Len(b64decode(fd.s)) = size.n

C1_Witness ==
  /\ Succeeded
  /\ input_file.data = PlusSlash
  /\ Get(Metadata(output_file.data), K_size_bytes) = JInt(3)
  /\ Get(Metadata(output_file.data), K_file_data) = JStr(<<"+", "/", "+", "+">>)

\* C2: after a successful run file_data decodes to exactly the bytes of the
\* input file, content_hash is the SHA-256 hex digest of those bytes, and the
\* digest of the decoded file_data is that same content_hash.
C2_HashRoundTrip ==
  Succeeded =>
    LET m == Metadata(output_file.data)
        h == Get(m, K_content_hash)
        fd == Get(m, K_file_data)
    IN  /\ h.t = "str"
        /\ fd.t = "str"
        /\ IsB64(fd.s)
        /\ b64decode(fd.s) = input_file.data
        /\ h.s = Sha256Hex[input_file.data]
        /\ Sha256Hex[b64decode(fd.s)] = h.s
        /\ Len(h.s) = 64

C2_Witness ==
  /\ Succeeded
  /\ input_file.data = <<255>>
  /\ Get(Metadata(output_file.data), K_file_data) = JStr(<<"/", "w", "=", "=">>)

\* C3 as stated: a run on a missing or unreadable input file ends with a
\* file-not-found failure and leaves the output file as it was.
C3_Original ==
  (pc = "exit" /\ (~input_file.exists \/ ~input_file.readable))
    => (exc.type = "FileNotFoundError" /\ output_file = at_start.output)

\* C3 as amended: a run on a missing input file ends with a file-not-found
\* failure, a run on an input file that exists but cannot be read ends with
\* another OS error, and both leave the output file as it was: absent if it
\* was absent, with the same content if it existed.
C3_InputFailure ==
  pc = "exit" =>
    /\ ~input_file.exists =>
         (exc = Raised("FileNotFoundError", "open_input") /\ output_file = at_start.output)
    /\ (input_file.exists /\ ~input_file.readable) =>
         (exc = Raised("PermissionError", "open_input") /\ output_file = at_start.output)
    /\ exc.at = "read_input" =>
         (exc.type = "OSError" /\ output_file = at_start.output)

C3_Witness ==
  /\ pc = "exit"
  /\ ~input_file.exists
  /\ exc.type = "FileNotFoundError"
  /\ at_start.output.exists
  /\ output_file.exists

\* C4: a successful run on the input that the last successful run had writes
\* the same output as that run did, whatever the output path held when it
\* started.
C4_Idempotent ==
  (Succeeded /\ last_ok.some /\ last_ok.input = input_file.data)
    => output_file = File(last_ok.output)

C4_Witness ==
  /\ Succeeded
  /\ quiet
  /\ last_ok.some
  /\ last_ok.input = input_file.data
  /\ at_start.output = File(last_ok.output)

\* C5: after a successful run the output file is a JSON object with exactly the
\* keys query and variables, variables holds exactly input, input holds exactly
\* data, and data is a string that is itself a JSON object with exactly the six
\* metadata keys.
C5_DocumentShape ==
  Succeeded =>
    LET doc == loads(output_file.data)
        vs == Get(doc, K_variables)
        inp == Get(vs, K_input)
        d == Get(inp, K_data)
    IN  /\ HasExactlyKeys(doc, {K_query, K_variables})
        /\ Get(doc, K_query).t = "str"
        /\ HasExactlyKeys(vs, {K_input})
        /\ HasExactlyKeys(inp, {K_data})
        /\ d.t = "str"
        /\ HasExactlyKeys(loads(d.s), MetadataKeys)

C5_Witness ==
  /\ Succeeded
  /\ input_file.data = <<0>>
  /\ DataOf(loads(output_file.data)).t = "str"

\* C6 as stated: a run that fails before the output is written leaves no file
\* at the output path.
C6_Original ==
  (pc = "exit" /\ exc.at \in {"open_input", "read_input", "open_output"})
    => ~output_file.exists

\* C6 as amended: a run that fails before the output file is opened (input
\* missing or unreadable, output path not writable) leaves the output path as
\* it was when the run started; a run that fails during the write leaves a
\* truncated document.
C6_FailureBeforeWrite ==
  /\ (pc = "exit" /\ exc.at \in {"open_input", "read_input", "open_output"})
       => output_file = at_start.output
  /\ (pc = "exit" /\ exc.at = "write_output")
       => /\ output_file.exists
          /\ Len(output_file.data) < Len(dumps(request))
          /\ IsPrefix(output_file.data, dumps(request))

C6_Witness ==
  /\ pc = "exit"
  /\ exc.at = "open_output"
  /\ last_ok.some
  /\ output_file = File(last_ok.output)

C8_ConstantFields ==
  Succeeded =>
    LET doc == loads(output_file.data)
        m == Metadata(output_file.data)
    IN  /\ Get(doc, K_query) = JStr(QUERY)
        /\ Get(m, K_filename) = JStr(INPUT_PATH)
        /\ Get(m, K_mime_type) = JStr(MIME_TYPE)
        /\ Get(m, K_encrypted_key) = JStr(ENCRYPTED_KEY)
        /\ last_ok.some =>
             LET doc0 == loads(last_ok.output)
                 m0 == Metadata(last_ok.output)
             IN  /\ Get(doc0, K_query) = Get(doc, K_query)
                 /\ Keys(doc0) = Keys(doc)
                 /\ Keys(m0) = Keys(m)
                 /\ \A k \in Keys(m) \ {K_content_hash, K_size_bytes, K_file_data} :
                      Get(m0, k) = Get(m, k)

C8_Witness ==
  /\ Succeeded
  /\ last_ok.some
  /\ last_ok.input # input_file.data
  /\ Get(Metadata(last_ok.output), K_file_data) # Get(Metadata(output_file.data), K_file_data)

\* C9: a successful run on the 5 bytes "hello" writes size_bytes 5, the stated
\* content_hash and file_data "aGVsbG8="; a successful run on the empty file
\* writes size_bytes 0, the stated content_hash and the empty file_data.
C9_Scenarios ==
  Succeeded =>
    LET m == Metadata(output_file.data)
    IN  /\ input_file.data = Hello =>
             /\ Get(m, K_size_bytes) = JInt(5)
             /\ Get(m, K_content_hash) = JStr(HelloHash)
             /\ Get(m, K_file_data) = JStr(HelloB64)
        /\ input_file.data = <<>> =>
             /\ Get(m, K_size_bytes) = JInt(0)
             /\ Get(m, K_content_hash) = JStr(EmptyHash)
             /\ Get(m, K_file_data) = JStr(<<>>)

C9_Witness ==
  /\ Succeeded
  /\ input_file.data = <<>>
  /\ last_ok.some
  /\ last_ok.input = Hello

\* C10: the statements run once each in their order, every started run ends,
\* the two file handles are never open together and none is open when the run
\* has ended, and the success message is printed only once the whole document
\* is in the output file and its handle is closed.
C10_StraightLine ==
  /\ [](~(f_in /\ f_out))
  /\ [](f_in => pc \in {"read", "close_input"})
  /\ [](f_out => pc \in {"dump", "close_output"})
  /\ [](stdout # <<>> =>
          /\ stdout = <<SUCCESS_MESSAGE>>
          /\ Succeeded
          /\ out_buffer = <<>>
          /\ output_file = File(dumps(request)))
  /\ [][pc' # pc => (Rank(pc') > Rank(pc) \/ (pc = "exit" /\ pc' = "idle"))]_vars
  /\ (pc = "open_input") ~> (pc = "exit")

C10_Witness ==
  /\ pc = "exit"
  /\ stdout = <<SUCCESS_MESSAGE>>
  /\ ~f_in
  /\ ~f_out

====
